---- MODULE Spec2Model ----
(***************************************************************************)
(* Model of downspout's scan-and-sync core:                                *)
(*   FtpScanner      (server/src/libs/FtpScanner.ts, lines 16-214)         *)
(*   SyncController  (same file, lines 237-462)                            *)
(* Node runs every handler to completion on one thread, so each action     *)
(* below is one whole handler: a public call, a timer firing, or the       *)
(* callback of a listing, resolution or transfer request.                  *)
(* Paths are sequences of one-character strings, so that prefix tests,     *)
(* stripping and concatenation are computed and not assumed.               *)
(***************************************************************************)
EXTENDS Integers, Sequences, FiniteSets, TLC

VARIABLES
    config,            \* the ambient configuration, immutable during a run
    scanners,          \* every FtpScanner constructed so far, by number
    ftpScanner,        \* SyncController.ftpScanner: 0 is null
    pollingTimeoutId,  \* SyncController.pollingTimeoutId: 0 is unset
    downloadQueue,     \* SyncController.downloadQueue
    transfers,         \* the FtpDownloaders whose transfer is in flight
    remoteDeleteQueue, \* SyncController.remoteDeleteQueue
    localFiles,        \* the paths that exist on the local disk
    last               \* what the handler that ran last did (observation only)

vars == <<config, scanners, ftpScanner, pollingTimeoutId, downloadQueue,
          transfers, remoteDeleteQueue, localFiles, last>>

----------------------------------------------------------------------------
(* Bounds *)

\* FtpScanner sessions the orchestrator constructs in one run
MaxScans == 2

\* largest concurrency cap (config.downloads.countMax) tried
MaxCountMax == 2

\* depth budget startScan passes to processFilesJSON
ScanDepth == 20

\* largest depth budget processFilesJSON is applied with on its own
MaxDepth == 3

\* directories nested inside one another in the trees it is applied to
MaxNesting == 2

\* most path mappings in a configuration getDestinationDirectory is applied
\* with on its own
MaxMappings == 2

----------------------------------------------------------------------------
(* Paths and file entries *)

NoErr == "null"

\* FtpFile.appendSlash: the path with a trailing slash, added when missing
appendSlash(p) ==
    IF Len(p) > 0 /\ p[Len(p)] = "/" THEN p ELSE Append(p, "/")

UnsafeChars == {":", "*", "?"}

\* Utils.sanitizeFtpPath: the path without the characters a local file
\* system refuses
sanitizeFtpPath(p) == SelectSeq(p, LAMBDA c : c \notin UnsafeChars)

\* indexOf(prefix) == 0
startsWith(p, prefix) ==
    /\ Len(prefix) <= Len(p)
    /\ SubSeq(p, 1, Len(prefix)) = prefix

\* String.substring(n): the string without its first n characters
substring(p, n) == SubSeq(p, n + 1, Len(p))

\* config.seedboxFtp.syncRoot
SyncRoot == <<"/", "s">>

\* a raw entry of a listing
Node(name, type, time, children) ==
    [name |-> name, type |-> type, time |-> time, children |-> children]

\* new FtpFile(basePath, relativePath, file)
FtpFile(basePath, relativePath, file) ==
    [basePath |-> basePath, relativeDirectory |-> relativePath,
     name |-> file.name, isSymLink |-> (file.type = "symlink"),
     time |-> file.time]

\* FtpFile.fullPath
fullPath(f) == f.basePath \o f.relativeDirectory \o f.name

\* FtpFile.equals: identity is basePath + relativeDirectory + name
equals(f, g) == fullPath(f) = fullPath(g)

\* the remote tree a full listing answers with: a plain file in a mapped
\* directory, a symlink with a character that is sanitized away, and an entry
\* that is neither a file, a symlink nor a directory
Tree1 ==
    << Node(<<"t">>, "dir", 0, << Node(<<"b">>, "file", 3, <<>>) >>),
       Node(<<"a", ":">>, "symlink", 2, <<>>),
       Node(<<"p">>, "pipe", 4, <<>>) >>

Listings == {Tree1}

\* further trees for the study of one scan: no entry at all; a symlink, and a
\* directory holding a plain file and a second symlink; two symlinks listed
\* oldest first
Tree2 == << >>

Tree3 ==
    << Node(<<"c">>, "symlink", 5, <<>>),
       Node(<<"u">>, "dir", 0, << Node(<<"e">>, "file", 4, <<>>),
                                  Node(<<"f">>, "symlink", 3, <<>>) >>) >>

Tree4 ==
    << Node(<<"g">>, "symlink", 1, <<>>),
       Node(<<"h">>, "symlink", 2, <<>>) >>

Trees == {Tree1, Tree2, Tree3, Tree4}

\* the entries that are not directories: a plain file, a symlink, a pipe
LeafNodes ==
    {Node(<<"a">>, "file", 1, <<>>), Node(<<"b">>, "symlink", 2, <<>>),
     Node(<<"p">>, "pipe", 3, <<>>)}

RECURSIVE Contents(_)
\* the contents of a directory above n levels of directories: nothing or
\* one leaf when n = 0, else a directory alone, before a leaf or after a leaf
Contents(n) ==
    IF n = 0 THEN {<< >>} \cup {<<x>> : x \in LeafNodes}
    ELSE LET dirs == {Node(<<"v">>, "dir", 0, c) : c \in Contents(n - 1)}
         IN  {<<d>> : d \in dirs}
                 \cup {<<d, x>> : d \in dirs, x \in LeafNodes}
                 \cup {<<x, d>> : d \in dirs, x \in LeafNodes}

\* the nested listings processFilesJSON is applied to on its own
NestedListings == UNION {Contents(n) : n \in 0..MaxNesting}

\* the configurations tried
PathMappings == << [remotePath |-> <<"/", "t">>, localPath |-> <<"/", "x">>] >>

LocalSyncRoot == <<"/", "d">>

Configs ==
    [downloads : [countMax : 1..MaxCountMax],
     deleteRemoteFiles : BOOLEAN,
     pathMappings : {PathMappings},
     localSyncRoot : {LocalSyncRoot}]

\* the remote and local paths of the mappings getDestinationDirectory is
\* applied with on its own: /t, /t/, /tv, /t/u and /x, /y/
RemotePaths ==
    {<<"/", "t">>, <<"/", "t", "/">>, <<"/", "t", "v">>, <<"/", "t", "/", "u">>}

LocalPaths == {<<"/", "x">>, <<"/", "y", "/">>}

RECURSIVE MappingLists(_)
\* the lists of at most n mappings
MappingLists(n) ==
    IF n = 0 THEN {<< >>}
    ELSE LET shorter == MappingLists(n - 1)
         IN  shorter \cup
             {Append(l, [remotePath |-> r, localPath |-> p]) :
                 l \in shorter, r \in RemotePaths, p \in LocalPaths}

DestConfigs ==
    [downloads : {[countMax |-> 1]},
     deleteRemoteFiles : {TRUE},
     pathMappings : MappingLists(MaxMappings),
     localSyncRoot : {LocalSyncRoot}]

\* the relative directories of the files it is applied to:
\* /, /t/, /tv/, /t/u/, /t:/, /tv/t/, /t/u:/
DestDirectories ==
    {<<"/">>, <<"/", "t", "/">>, <<"/", "t", "v", "/">>,
     <<"/", "t", "/", "u", "/">>, <<"/", "t", ":", "/">>,
     <<"/", "t", "v", "/", "t", "/">>, <<"/", "t", "/", "u", ":", "/">>}

----------------------------------------------------------------------------
(* What a handler did: the calls it made, in order *)

Call(fn, s, i, err) == [fn |-> fn, scan |-> s, idx |-> i, err |-> err]

Log(w, fn, s, i, err) == [w EXCEPT !.calls = Append(@, Call(fn, s, i, err))]

\* the calls of the last handler named fn
CallsOf(fn) == SelectSeq(last.calls, LAMBDA c : c.fn = fn)

Called(fn) == Len(CallsOf(fn)) > 0

\* the state the handlers work on
World ==
    [scanners |-> scanners, ftpScanner |-> ftpScanner,
     pollingTimeoutId |-> pollingTimeoutId, downloadQueue |-> downloadQueue,
     transfers |-> transfers, remoteDeleteQueue |-> remoteDeleteQueue,
     localFiles |-> localFiles, threw |-> FALSE, calls |-> <<>>]

Commit(w, op, s, i, err, n) ==
    /\ scanners' = w.scanners
    /\ ftpScanner' = w.ftpScanner
    /\ pollingTimeoutId' = w.pollingTimeoutId
    /\ downloadQueue' = w.downloadQueue
    /\ transfers' = w.transfers
    /\ remoteDeleteQueue' = w.remoteDeleteQueue
    /\ localFiles' = w.localFiles
    /\ last' = [op |-> op, scan |-> s, idx |-> i, err |-> err, n |-> n,
                threw |-> w.threw, calls |-> w.calls]
    /\ UNCHANGED config

----------------------------------------------------------------------------
(* SyncController: destinations, the download queue, the delete queue *)

RECURSIVE firstPathMapNoSlash(_, _, _)
firstPathMapNoSlash(pathMappings, remoteDirectory, k) ==
    IF k > Len(pathMappings) THEN 0
    ELSE IF startsWith(remoteDirectory, pathMappings[k].remotePath)
         THEN k
         ELSE firstPathMapNoSlash(pathMappings, remoteDirectory, k + 1)

RECURSIVE firstPathMap(_, _, _)
\* the loop of getDestinationDirectory: the first mapping, in configured
\* order, whose slash-terminated remotePath starts the directory; 0 if none
firstPathMap(pathMappings, remoteDirectory, k) ==
    IF k > Len(pathMappings) THEN 0
    ELSE IF startsWith(remoteDirectory, appendSlash(pathMappings[k].remotePath))
         THEN k
         ELSE firstPathMap(pathMappings, remoteDirectory, k + 1)

getDestinationDirectory(cfg, file) ==
    LET remoteDirectory == file.relativeDirectory
        k == firstPathMap(cfg.pathMappings, remoteDirectory, 1)
    IN  IF k > 0
        THEN LET pathMapDirectory == appendSlash(cfg.pathMappings[k].remotePath)
                 relativeDirectory == substring(remoteDirectory, Len(pathMapDirectory))
             IN  appendSlash(cfg.pathMappings[k].localPath)
                     \o sanitizeFtpPath(relativeDirectory)
        ELSE appendSlash(cfg.localSyncRoot) \o sanitizeFtpPath(file.relativeDirectory)

\* the local path fileAlreadyDownloaded tests, and a finished transfer fills
localPath(cfg, file) ==
    appendSlash(getDestinationDirectory(cfg, file)) \o sanitizeFtpPath(file.name)

fileAlreadyDownloaded(w, file) == localPath(config, file) \in w.localFiles

addToRemoteDeleteQueue(w, s, i, file) ==
    IF ~config.deleteRemoteFiles
    THEN w
    ELSE Log([w EXCEPT !.remoteDeleteQueue.files = @ \cup {file}],
             "remoteDeleteQueue.add", s, i, NoErr)

\* the number of entries of the queue that are downloading
downloadingCount(queue) ==
    Cardinality({t \in DOMAIN queue : queue[t].downloading})

\* the position of the first entry that is not downloading, 0 if none
nextFile(queue) ==
    IF \E t \in DOMAIN queue : ~queue[t].downloading
    THEN CHOOSE t \in DOMAIN queue :
             /\ ~queue[t].downloading
             /\ \A u \in 1..(t - 1) : queue[u].downloading
    ELSE 0

getNextFileToDownloadOffByOne(w) ==
    IF downloadingCount(w.downloadQueue) <= config.downloads.countMax
    THEN nextFile(w.downloadQueue)
    ELSE 0

getNextFileToDownloadLast(w) ==
    IF downloadingCount(w.downloadQueue) < config.downloads.countMax
    THEN IF \E t \in DOMAIN w.downloadQueue : ~w.downloadQueue[t].downloading
         THEN CHOOSE t \in DOMAIN w.downloadQueue :
                  /\ ~w.downloadQueue[t].downloading
                  /\ \A u \in (t + 1)..Len(w.downloadQueue) :
                         w.downloadQueue[u].downloading
         ELSE 0
    ELSE 0

\* the position in the queue of the file to download next, 0 for null
getNextFileToDownload(w) ==
    IF downloadingCount(w.downloadQueue) < config.downloads.countMax
    THEN nextFile(w.downloadQueue)
    ELSE 0

\* new FtpDownloader(file, localDirectory).start(callback): the transfer of
\* queue entry t begins and the entry is marked as downloading
FtpDownloaderStart(w, t) ==
    LET e == w.downloadQueue[t]
    IN  Log([w EXCEPT !.downloadQueue[t].downloading = TRUE,
                      !.transfers = @ \cup {[scan |-> e.scan, idx |-> e.idx]}],
            "FtpDownloader.start", e.scan, e.idx, NoErr)

RECURSIVE downloadNextInQueue(_)
downloadNextInQueue(w) ==
    LET t == getNextFileToDownload(w)
    IN  IF t = 0 THEN w ELSE downloadNextInQueue(FtpDownloaderStart(w, t))

RECURSIVE removeFrom(_, _, _, _)
\* the loop of removeFileFromQueue from position t on: splice at every
\* position holding the object, then t++
removeFrom(queue, s, i, t) ==
    IF t > Len(queue) THEN queue
    ELSE IF queue[t].scan = s /\ queue[t].idx = i
         THEN removeFrom(SubSeq(queue, 1, t - 1) \o SubSeq(queue, t + 1, Len(queue)),
                         s, i, t + 1)
         ELSE removeFrom(queue, s, i, t + 1)

removeFileFromQueue(s, i, queue) == removeFrom(queue, s, i, 1)

scannerFileFoundNoDedup(w, s, i, file) ==
    IF fileAlreadyDownloaded(w, file)
    THEN addToRemoteDeleteQueue(w, s, i, file)
    ELSE downloadNextInQueue(
             Log([w EXCEPT !.downloadQueue =
                      Append(@, [scan |-> s, idx |-> i, file |-> file,
                                 downloading |-> FALSE])],
                 "downloadQueue.push", s, i, NoErr))

scannerFileFoundNoExistsCheck(w, s, i, file) ==
    IF ~\E t \in DOMAIN w.downloadQueue : equals(file, w.downloadQueue[t].file)
    THEN downloadNextInQueue(
             Log([w EXCEPT !.downloadQueue =
                      Append(@, [scan |-> s, idx |-> i, file |-> file,
                                 downloading |-> FALSE])],
                 "downloadQueue.push", s, i, NoErr))
    ELSE w

\* file is object i of scanner s
scannerFileFound(w, s, i, file) ==
    IF fileAlreadyDownloaded(w, file)
    THEN addToRemoteDeleteQueue(w, s, i, file)
    ELSE IF ~\E t \in DOMAIN w.downloadQueue : equals(file, w.downloadQueue[t].file)
         THEN downloadNextInQueue(
                  Log([w EXCEPT !.downloadQueue =
                           Append(@, [scan |-> s, idx |-> i, file |-> file,
                                      downloading |-> FALSE])],
                      "downloadQueue.push", s, i, NoErr))
         ELSE w

scannerCompleteNoReturn(w, s, err) ==
    Log([w EXCEPT !.remoteDeleteQueue.paused = FALSE],
        "remoteDeleteQueue.start", s, 0, NoErr)

scannerComplete(w, s, err) ==
    IF err # NoErr
    THEN Log(w, "postNotification", s, 0, err)
    ELSE Log([w EXCEPT !.remoteDeleteQueue.paused = FALSE],
             "remoteDeleteQueue.start", s, 0, NoErr)

downloadDoneNoRemove(w, err, s, i) ==
    LET file == w.scanners[s].list[i]
        w1 == IF err = NoErr THEN addToRemoteDeleteQueue(w, s, i, file) ELSE w
    IN  downloadNextInQueue(w1)

\* the callback of the transfer of object i of scanner s
downloadDone(w, err, s, i) ==
    LET file == w.scanners[s].list[i]
        w1 == IF err = NoErr THEN addToRemoteDeleteQueue(w, s, i, file) ELSE w
        w2 == [w1 EXCEPT !.downloadQueue = removeFileFromQueue(s, i, @)]
    IN  downloadNextInQueue(w2)

----------------------------------------------------------------------------
(* FtpScanner *)

\* new FtpScanner(scanCompleteCallback, scanFileFoundCallback): the
\* orchestrator is the consumer of both callbacks
NewFtpScanner ==
    [scanning |-> FALSE, cancelled |-> FALSE,
     timers |-> 0,           \* watchdog timers set and not yet fired
     scanCompleteCallbackFunc |-> "consumer",
     scanFileFoundCallbackFunc |-> "consumer",
     ftp |-> "none",         \* none, open, destroyed
     connections |-> 0,      \* connections opened
     destroyed |-> 0,        \* calls of ftp.destroy()
     lsrPending |-> 0,       \* full listings requested and not yet answered
     data |-> <<>>,          \* the tree the full listing was answered with
     list |-> <<>>,          \* the FtpFile objects of the scan, sorted
     idx |-> 0,              \* the entry whose ls request is in flight
     lsPending |-> 0,        \* ls requests sent and not yet answered
     targetData |-> {},      \* the entries whose targetData is stored
     mapDone |-> FALSE,      \* mapLimit has called its final callback
     emitted |-> <<>>,       \* the entries handed to the consumer, in order
     scanCompleted |-> <<>>, \* the errors scanComplete ran with, in order
     completed |-> <<>>]     \* the errors the consumer's completion
                             \* callback was invoked with, in order

finish(w, s) ==
    Log([w EXCEPT !.scanners[s].scanning = FALSE,
                  !.scanners[s].scanCompleteCallbackFunc = "noop",
                  !.scanners[s].scanFileFoundCallbackFunc = "noop",
                  !.scanners[s].ftp = "destroyed",
                  !.scanners[s].destroyed = @ + 1],
        "ftp.destroy", s, 0, NoErr)

\* this.scanCompleteCallbackFunc(err, files)
callScanComplete(w, s, err) ==
    IF w.scanners[s].scanCompleteCallbackFunc = "consumer"
    THEN scannerComplete([w EXCEPT !.scanners[s].completed = Append(@, err)],
                         s, err)
    ELSE w

\* this.scanFileFoundCallbackFunc(file), file being entry i of the list
callScanFileFound(w, s, i) ==
    IF w.scanners[s].scanFileFoundCallbackFunc = "consumer"
    THEN scannerFileFound(
             Log([w EXCEPT !.scanners[s].emitted = Append(@, i)],
                 "scannerFileFound", s, i, NoErr),
             s, i, w.scanners[s].list[i])
    ELSE w

scanComplete(w, s, err) ==
    callScanComplete(
        finish(Log([w EXCEPT !.scanners[s].scanCompleted = Append(@, err)],
                   "scanComplete", s, 0, err),
               s),
        s, err)

ftpScanError(w, s, err) == scanComplete(w, s, err)

\* the final callback of mapLimit, which hands on to scanComplete
completedCallback(w, s, err) ==
    scanComplete([w EXCEPT !.scanners[s].mapDone = TRUE], s, err)

iterDone(w, s, i, err) == Log(w, "iterDone", s, i, err)

RECURSIVE iterateParallel(_, _, _)
iterateParallel(w, s, i) ==
    LET sc == w.scanners[s]
    IN  IF i > Len(sc.list) THEN w
        ELSE IF sc.cancelled
        THEN completedCallback(iterDone(w, s, i, "Scan cancelled"), s,
                               "Scan cancelled")
        ELSE IF ~sc.list[i].isSymLink
        THEN iterateParallel(iterDone(callScanFileFound(w, s, i), s, i, NoErr),
                             s, i + 1)
        ELSE iterateParallel(Log([w EXCEPT !.scanners[s].idx = i,
                                           !.scanners[s].lsPending = @ + 1],
                                 "ftp.ls", s, i, NoErr),
                             s, i + 1)

RECURSIVE iterate(_, _, _)
\* async.mapLimit(list, 1, ...) from entry i on: the iterator runs for one
\* entry at a time, the next one as soon as iterDone is called without error
iterate(w, s, i) ==
    LET sc == w.scanners[s]
    IN  IF i > Len(sc.list) THEN completedCallback(w, s, NoErr)
        ELSE IF sc.cancelled
        THEN completedCallback(iterDone(w, s, i, "Scan cancelled"), s,
                               "Scan cancelled")
        ELSE IF ~sc.list[i].isSymLink
        THEN iterate(iterDone(callScanFileFound(w, s, i), s, i, NoErr), s, i + 1)
        ELSE Log([w EXCEPT !.scanners[s].idx = i,
                           !.scanners[s].lsPending = @ + 1],
                 "ftp.ls", s, i, NoErr)

updateFileSizes(w, s) == iterate(w, s, 1)

lsCallbackNoCancelCheck(w, s, err, n) ==
    LET i == w.scanners[s].idx
    IN  IF err # NoErr \/ n # 1
        THEN completedCallback(iterDone(w, s, i, "Error getting data"), s,
                               "Error getting data")
        ELSE iterate(iterDone(callScanFileFound(
                         [w EXCEPT !.scanners[s].targetData = @ \cup {i}], s, i),
                         s, i, NoErr),
                     s, i + 1)

\* the callback of this.ftp.ls(file.fullPath, ...): n is data.length
lsCallback(w, s, err, n) ==
    LET i == w.scanners[s].idx
    IN  IF w.scanners[s].cancelled
        THEN completedCallback(iterDone(w, s, i, "Scan cancelled"), s,
                               "Scan cancelled")
        ELSE IF err # NoErr \/ n # 1
        THEN completedCallback(iterDone(w, s, i, "Error getting data"), s,
                               "Error getting data")
        ELSE iterate(iterDone(callScanFileFound(
                         [w EXCEPT !.scanners[s].targetData = @ \cup {i}], s, i),
                         s, i, NoErr),
                     s, i + 1)

RECURSIVE processFilesJSON(_, _, _, _, _)
RECURSIVE processEntries(_, _, _, _, _, _)
\* the for loop of processFilesJSON from entry k of data on
processEntries(data, k, basePath, depth, relativePath, outList) ==
    IF k > Len(data) THEN outList
    ELSE LET file == data[k]
             out == IF file.type \in {"symlink", "file"}
                    THEN Append(outList, FtpFile(basePath, relativePath, file))
                    ELSE IF file.type = "dir"
                    THEN processFilesJSON(file.children, basePath, depth - 1,
                                          relativePath \o file.name, outList)
                    ELSE outList
         IN  processEntries(data, k + 1, basePath, depth, relativePath, out)

\* outList after the call
processFilesJSON(data, basePath, depth, relativePath, outList) ==
    IF depth = 0 THEN outList
    ELSE processEntries(data, 1, basePath, depth, appendSlash(relativePath), outList)

\* the value of this.processFilesJSON(data, basePath, depth): undefined when
\* depth is 0, else the list
processFilesJSONReturn(data, basePath, depth) ==
    IF depth = 0 THEN [defined |-> FALSE, list |-> <<>>]
    ELSE [defined |-> TRUE,
          list |-> processFilesJSON(data, basePath, depth, <<>>, <<>>)]

\* FtpFile.sortNewestFirst(a, b) <= 0: a stays before b
sortNewestFirst(a, b) == a.time >= b.time

RECURSIVE sort(_)
\* Array.sort(FtpFile.sortNewestFirst), by insertion
sort(list) ==
    IF Len(list) <= 1 THEN list
    ELSE LET n == Len(list)
             head == sort(SubSeq(list, 1, n - 1))
             x == list[n]
             before == SelectSeq(head, LAMBDA y : sortNewestFirst(y, x))
             after == SelectSeq(head, LAMBDA y : ~sortNewestFirst(y, x))
         IN  before \o <<x>> \o after

lsrCallbackNoSort(w, s, err, data) ==
    IF err # NoErr THEN ftpScanError(w, s, err)
    ELSE updateFileSizes(
             [w EXCEPT !.scanners[s].data = data,
                       !.scanners[s].list =
                  processFilesJSON(data, SyncRoot, ScanDepth, <<>>, <<>>)],
             s)

\* the callback of this.ftp.lsr(syncFolder, ...)
lsrCallback(w, s, err, data) ==
    IF err # NoErr THEN ftpScanError(w, s, err)
    ELSE updateFileSizes(
             [w EXCEPT !.scanners[s].data = data,
                       !.scanners[s].list =
                  sort(processFilesJSON(data, SyncRoot, ScanDepth, <<>>, <<>>))],
             s)

startScanNoGuard(w, s) ==
    Log(Log(Log([w EXCEPT !.scanners[s].scanning = TRUE,
                          !.scanners[s].timers = @ + 1,
                          !.scanners[s].ftp = "open",
                          !.scanners[s].connections = @ + 1,
                          !.scanners[s].lsrPending = @ + 1],
                "setTimeout", s, 0, NoErr),
            "newJSFtp", s, 0, NoErr),
        "ftp.lsr", s, 0, NoErr)

startScan(w, s) ==
    IF w.scanners[s].scanning
    THEN [w EXCEPT !.threw = TRUE]
    ELSE Log(Log(Log([w EXCEPT !.scanners[s].scanning = TRUE,
                               !.scanners[s].timers = @ + 1,
                               !.scanners[s].ftp = "open",
                               !.scanners[s].connections = @ + 1,
                               !.scanners[s].lsrPending = @ + 1],
                     "setTimeout", s, 0, NoErr),
                 "newJSFtp", s, 0, NoErr),
             "ftp.lsr", s, 0, NoErr)

cancel(w, s) == finish([w EXCEPT !.scanners[s].cancelled = TRUE], s)

timeoutCancelCallbackNoCancel(w, s) == w

timeoutCancelCallback(w, s) ==
    IF ~w.scanners[s].scanning \/ w.scanners[s].cancelled
    THEN w
    ELSE cancel(Log(w, "timed out", s, 0, NoErr), s)

----------------------------------------------------------------------------
(* SyncController.syncRequest *)

resetSyncTimer(w) ==
    Log([w EXCEPT !.pollingTimeoutId = Len(w.scanners)],
        "setInterval", 0, 0, NoErr)

syncRequestNoGuard(w) ==
    LET s == Len(w.scanners) + 1
        w1 == Log([w EXCEPT !.remoteDeleteQueue.paused = TRUE],
                  "remoteDeleteQueue.pause", 0, 0, NoErr)
        w2 == [w1 EXCEPT !.scanners = Append(@, NewFtpScanner),
                         !.ftpScanner = s]
    IN  resetSyncTimer(startScan(w2, s))

syncRequest(w) ==
    IF w.ftpScanner # 0 /\ w.scanners[w.ftpScanner].scanning
    THEN w
    ELSE LET s == Len(w.scanners) + 1
             w1 == Log([w EXCEPT !.remoteDeleteQueue.paused = TRUE],
                       "remoteDeleteQueue.pause", 0, 0, NoErr)
             w2 == [w1 EXCEPT !.scanners = Append(@, NewFtpScanner),
                              !.ftpScanner = s]
         IN  resetSyncTimer(startScan(w2, s))

----------------------------------------------------------------------------
(* The handlers, each run to completion *)

Init ==
    /\ config \in Configs
    /\ scanners = <<>>
    /\ ftpScanner = 0
    /\ pollingTimeoutId = 0
    /\ downloadQueue = <<>>
    /\ transfers = {}
    /\ remoteDeleteQueue = [paused |-> FALSE, files |-> {}]
    /\ localFiles = {}
    /\ last = [op |-> "init", scan |-> 0, idx |-> 0, err |-> NoErr, n |-> 0,
               threw |-> FALSE, calls |-> <<>>]

\* the poll timer fires, or a sync is requested from outside
SyncRequest ==
    /\ \/ Len(scanners) < MaxScans
       \/ ftpScanner # 0 /\ scanners[ftpScanner].scanning
    /\ Commit(syncRequest(World), "syncRequest", 0, 0, NoErr, 0)

\* the full listing is answered, with an error or with a tree
LsrResponse ==
    \E s \in DOMAIN scanners :
        /\ scanners[s].lsrPending > 0
        /\ LET w == [World EXCEPT !.scanners[s].lsrPending = @ - 1]
           IN  \/ \E err \in {"530"} :
                      Commit(lsrCallback(w, s, err, <<>>), "lsr", s, 0, err, 0)
               \/ \E data \in Listings :
                      Commit(lsrCallback(w, s, NoErr, data), "lsr", s, 0, NoErr, Len(data))

\* the ls request in flight is answered, with an error or with n entries
LsResponse ==
    \E s \in DOMAIN scanners :
        /\ scanners[s].lsPending > 0
        /\ LET w == [World EXCEPT !.scanners[s].lsPending = @ - 1]
           IN  \/ Commit(lsCallback(w, s, "error", 0), "ls", s, scanners[s].idx, "error", 0)
               \/ \E n \in 0..2 : Commit(lsCallback(w, s, NoErr, n), "ls", s, scanners[s].idx, NoErr, n)

\* the connection signals 'error' or 'timeout'
FtpError ==
    \E s \in DOMAIN scanners, err \in {"error"} :
        /\ scanners[s].ftp = "open"
        /\ Commit(ftpScanError(World, s, err), "ftp.on", s, 0, err, 0)

\* a watchdog timer fires: all have the same delay, so they fire in the
\* order in which they were set
Timeout ==
    \E s \in DOMAIN scanners :
        /\ scanners[s].timers > 0
        /\ \A r \in 1..(s - 1) : scanners[r].timers = 0
        /\ Commit(timeoutCancelCallback(
                      [World EXCEPT !.scanners[s].timers = @ - 1], s),
                  "timeout", s, 0, NoErr, 0)

\* a transfer ends: with success the file is at its local path
DownloadDone ==
    \E t \in transfers, err \in {NoErr, "error"} :
        LET file == scanners[t.scan].list[t.idx]
            w == [World EXCEPT
                     !.transfers = @ \ {t},
                     !.localFiles = IF err = NoErr
                                    THEN @ \cup {localPath(config, file)}
                                    ELSE @]
        IN  Commit(downloadDone(w, err, t.scan, t.idx), "downloadDone", t.scan, t.idx,
                   err, 0)

Next ==
    \/ SyncRequest
    \/ LsrResponse
    \/ LsResponse
    \/ FtpError
    \/ Timeout
    \/ DownloadDone

\* the program as it runs on its own
Spec == Init /\ [][Next]_vars

\* the scans of the orchestrator while no transfer ends: the scanners and
\* syncRequest read neither the download queue nor the transfers
NextLive ==
    \/ SyncRequest
    \/ LsrResponse
    \/ LsResponse
    \/ FtpError
    \/ Timeout

\* the scans with watchdog timers that fire in the end: a timer set by
\* setTimeout and never cleared fires when its delay is over. Nothing is
\* assumed of the listing client, which may never answer.
SpecLive == Init /\ [][NextLive]_vars /\ WF_vars(Timeout)

\* startScan() is called on the scanner that is scanning
StartScanAgain ==
    /\ ftpScanner # 0
    /\ scanners[ftpScanner].scanning
    /\ Commit(startScan(World, ftpScanner), "startScan", ftpScanner, 0, NoErr, 0)

\* cancel() is called on the scanner while a size resolution is in flight
\* (the watchdog's cancel(), in Timeout, comes at any point of the scan)
Cancel ==
    /\ ftpScanner # 0
    /\ scanners[ftpScanner].scanning
    /\ scanners[ftpScanner].lsPending > 0
    /\ Commit(cancel(World, ftpScanner), "cancel", ftpScanner, 0, NoErr, 0)

NextCalls ==
    \/ Next
    \/ StartScanAgain
    \/ Cancel

\* the program with a caller that uses the public methods of the current
\* scanner while it scans
SpecCalls == Init /\ [][NextCalls]_vars

\* the orchestrator's scannerComplete is called for the current scanner with
\* the error its scan has ended with, right after the handler in which the
\* scanner's scanComplete ran
ScannerCompleteCall ==
    /\ ftpScanner # 0
    /\ Len(scanners[ftpScanner].scanCompleted) = 1
    /\ \E k \in DOMAIN last.calls :
           last.calls[k].fn = "scanComplete" /\ last.calls[k].scan = ftpScanner
    /\ LET err == scanners[ftpScanner].scanCompleted[1]
       IN  Commit(scannerComplete(World, ftpScanner, err), "scannerComplete",
                  ftpScanner, 0, err, 0)

\* the orchestrator with scanners that do report their completion
SpecDelegate == Init /\ [][Next \/ ScannerCompleteCall]_vars

\* the first sync request of a run
ScanRequest ==
    /\ ftpScanner = 0
    /\ Commit(syncRequest(World), "syncRequest", 0, 0, NoErr, 0)

\* the full listing is answered, with an error or with any of the trees
LsrResponseTrees ==
    \E s \in DOMAIN scanners :
        /\ scanners[s].lsrPending > 0
        /\ LET w == [World EXCEPT !.scanners[s].lsrPending = @ - 1]
           IN  \/ \E err \in {"530"} :
                      Commit(lsrCallback(w, s, err, <<>>), "lsr", s, 0, err, 0)
               \/ \E data \in Trees :
                      Commit(lsrCallback(w, s, NoErr, data), "lsr", s, 0, NoErr, Len(data))

NextScan ==
    \/ ScanRequest
    \/ LsrResponseTrees
    \/ LsResponse
    \/ FtpError
    \/ Timeout
    \/ DownloadDone

\* one scan of the orchestrator, over every tree
SpecScan == Init /\ [][NextScan]_vars

\* processFilesJSON is applied to a nested listing with a depth budget
Flatten ==
    /\ \E data \in NestedListings, depth \in 0..MaxDepth :
           last' = [op |-> "processFilesJSON", data |-> data, depth |-> depth,
                    result |-> processFilesJSONReturn(data, SyncRoot, depth)]
    /\ UNCHANGED <<config, scanners, ftpScanner, pollingTimeoutId, downloadQueue,
                   transfers, remoteDeleteQueue, localFiles>>

\* the tree flattener on its own
SpecFlatten == Init /\ [][Flatten]_vars

InitDest ==
    /\ config \in DestConfigs
    /\ scanners = <<>>
    /\ ftpScanner = 0
    /\ pollingTimeoutId = 0
    /\ downloadQueue = <<>>
    /\ transfers = {}
    /\ remoteDeleteQueue = [paused |-> FALSE, files |-> {}]
    /\ localFiles = {}
    /\ last = [op |-> "init"]

\* getDestinationDirectory is applied to a file of some directory
Destination ==
    /\ \E dir \in DestDirectories :
           LET file == FtpFile(SyncRoot, dir, Node(<<"a">>, "file", 1, <<>>))
           IN  last' = [op |-> "getDestinationDirectory", file |-> file,
                        result |-> getDestinationDirectory(config, file)]
    /\ UNCHANGED <<config, scanners, ftpScanner, pollingTimeoutId, downloadQueue,
                   transfers, remoteDeleteQueue, localFiles>>

\* destination resolution on its own, under every list of mappings
SpecDest == InitDest /\ [][Destination]_vars

----------------------------------------------------------------------------
(* Properties *)

\* the calls named fn that the last handler made for object i of scanner s
CalledFor(fn, s, i) ==
    \E k \in DOMAIN last.calls :
        last.calls[k].fn = fn /\ last.calls[k].scan = s /\ last.calls[k].idx = i

\* no entry waits while a slot is free
Saturated(queue) ==
    \/ downloadingCount(queue) = config.downloads.countMax
    \/ \A t \in DOMAIN queue : queue[t].downloading

\* C1: at every instant between two handlers the number of entries of the
\* download queue with downloading = TRUE is at most config.downloads.countMax
C1_ConcurrencyCap ==
    downloadingCount(downloadQueue) <= config.downloads.countMax

\* a completion has removed an entry, the next transfer was started and the
\* cap is reached
C1_Witness ==
    /\ last.op = "downloadDone"
    /\ Called("FtpDownloader.start")
    /\ downloadingCount(downloadQueue) = config.downloads.countMax

\* C2: no two entries of the download queue are equal files
C2_NoDuplicateIdentity ==
    \A t, u \in DOMAIN downloadQueue :
        equals(downloadQueue[t].file, downloadQueue[u].file) => t = u

\* a later scan has found again a file whose earlier object is still queued
C2_Witness ==
    \E k \in DOMAIN last.calls, t \in DOMAIN downloadQueue :
        LET c == last.calls[k]
        IN  /\ c.fn = "scannerFileFound"
            /\ downloadQueue[t].scan < c.scan
            /\ equals(downloadQueue[t].file, scanners[c.scan].list[c.idx])

\* C3: once a scan that was not cancelled has ended, by success or by a
\* listing or resolution error, the consumer's completion callback has been
\* invoked exactly once, with the error the scan ended with
C3_CompletionCallbackExactlyOnce ==
    \A s \in DOMAIN scanners :
        /\ Len(scanners[s].completed) <= 1
        /\ (~scanners[s].cancelled /\ Len(scanners[s].scanCompleted) > 0)
               => scanners[s].completed = <<scanners[s].scanCompleted[1]>>

\* C4: once a scan that was cancelled (by cancel() or by the watchdog) with
\* files left to emit has nothing in flight any more, the consumer's completion
\* callback has been invoked exactly once, with an error. An ls request had
\* been sent (idx > 0), so the n files were known when it was cancelled.
C4_CancelReportsOnce ==
    \A s \in DOMAIN scanners :
        (/\ scanners[s].cancelled
         /\ scanners[s].idx > 0
         /\ Len(scanners[s].emitted) < Len(scanners[s].list)
         /\ scanners[s].mapDone
         /\ scanners[s].lsrPending = 0 /\ scanners[s].lsPending = 0)
            => /\ Len(scanners[s].completed) = 1
               /\ scanners[s].completed[1] # NoErr

\* C5: once a scan is cancelled, no handler hands a file of it to the consumer
\* or stores targetData, and the answer to the ls request that was in flight
\* ends the resolution with "Scan cancelled"
C5_NoFileFoundAfterCancel ==
    [][\A s \in DOMAIN scanners :
           scanners[s].cancelled =>
               /\ scanners'[s].emitted = scanners[s].emitted
               /\ scanners'[s].targetData = scanners[s].targetData
               /\ (last'.op = "ls" /\ last'.scan = s) =>
                      /\ \E k \in DOMAIN last'.calls :
                             /\ last'.calls[k].fn = "iterDone"
                             /\ last'.calls[k].err = "Scan cancelled"
                      /\ scanners'[s].mapDone
                      /\ scanners'[s].lsPending = 0]_vars

\* a well-formed answer for a symlink has arrived after the cancel, some
\* files having been found before it
C5_Witness ==
    /\ last.op = "ls" /\ last.err = NoErr /\ last.n = 1
    /\ scanners[last.scan].cancelled
    /\ Len(scanners[last.scan].emitted) > 0
    /\ Len(scanners[last.scan].emitted) < Len(scanners[last.scan].list)

\* C6: startScan() on a scanner that is scanning throws, calls nothing and
\* leaves the scanner and the orchestrator as they were
C6_StartScanWhileScanningThrows ==
    [][(last'.op = "startScan" /\ scanners[last'.scan].scanning) =>
           /\ last'.threw
           /\ last'.calls = <<>>
           /\ UNCHANGED <<scanners, ftpScanner, pollingTimeoutId, downloadQueue,
                          transfers, remoteDeleteQueue, localFiles>>]_vars

\* the second startScan() has thrown and the first scan still waits for its
\* one listing, on its one connection, with its one timer
C6_Witness ==
    /\ last.op = "startScan" /\ last.threw
    /\ scanners[last.scan].scanning
    /\ scanners[last.scan].lsrPending = 1
    /\ scanners[last.scan].connections = 1
    /\ scanners[last.scan].timers = 1

\* the file object a call is about
FileOf(c) == scanners[c.scan].list[c.idx]

\* the files a handler of a scanner hands to the consumer while they exist at
\* their local path
FoundAlreadyDownloaded ==
    {k \in DOMAIN last.calls :
        /\ last.calls[k].fn = "scannerFileFound"
        /\ localPath(config, FileOf(last.calls[k])) \in localFiles}

\* every file of the listing of scanner s exists at its local path
AllDownloaded(s) ==
    \A i \in DOMAIN scanners[s].list :
        localPath(config, scanners[s].list[i]) \in localFiles

\* C7 as claimed: a found file that exists at its local path is not appended
\* to the download queue and is added to the remote-delete queue; a scan whose
\* files all exist locally appends nothing
C7_AlreadyDownloadedGoesToDeleteQueue ==
    /\ \A k \in FoundAlreadyDownloaded :
           LET c == last.calls[k]
           IN  /\ ~CalledFor("downloadQueue.push", c.scan, c.idx)
               /\ CalledFor("remoteDeleteQueue.add", c.scan, c.idx)
               /\ FileOf(c) \in remoteDeleteQueue.files
    /\ (last.op \in {"lsr", "ls"} /\ AllDownloaded(last.scan))
           => ~Called("downloadQueue.push")

\* C7 as amended: a found file that exists at its local path is not appended
\* to the download queue and is handed to addToRemoteDeleteQueue, which adds
\* it to the remote-delete queue exactly when config.deleteRemoteFiles is set;
\* a scan whose files all exist locally appends nothing
C7_AlreadyDownloadedNotEnqueued ==
    /\ \A k \in FoundAlreadyDownloaded :
           LET c == last.calls[k]
           IN  /\ ~CalledFor("downloadQueue.push", c.scan, c.idx)
               /\ ~CalledFor("FtpDownloader.start", c.scan, c.idx)
               /\ CalledFor("remoteDeleteQueue.add", c.scan, c.idx)
                      <=> config.deleteRemoteFiles
               /\ config.deleteRemoteFiles
                      => FileOf(c) \in remoteDeleteQueue.files
    /\ (last.op \in {"lsr", "ls"} /\ AllDownloaded(last.scan))
           => ~Called("downloadQueue.push")

\* the second scan hands over files of a listing that the first scan has
\* downloaded completely
C7_Witness ==
    /\ last.op \in {"lsr", "ls"} /\ last.scan = 2
    /\ Len(scanners[2].list) > 1
    /\ scanners[1].list = scanners[2].list
    /\ AllDownloaded(2)
    /\ FoundAlreadyDownloaded # {}
    /\ downloadQueue = <<>>

\* C8: syncRequest pauses the delete queue before it starts the scanner, and
\* once the scan it started has completed successfully (and no later scan has
\* paused the queue again) the delete queue has been resumed
C8_DeleteQueueBracketsScan ==
    /\ (last.op = "syncRequest" /\ Called("ftp.lsr"))
           => last.calls[1].fn = "remoteDeleteQueue.pause"
    /\ \A s \in DOMAIN scanners :
           (s = Len(scanners) /\ scanners[s].scanCompleted = <<NoErr>>)
               => ~remoteDeleteQueue.paused

\* C9: a scan completing with an error changes neither the download queue
\* nor the transfers and does not resume the delete queue
C9_ErrorLeavesQueues ==
    [][(\/ last'.op = "scannerComplete" /\ last'.err # NoErr
        \/ \E k \in DOMAIN last'.calls :
               last'.calls[k].fn = "scanComplete" /\ last'.calls[k].err # NoErr)
           => UNCHANGED <<downloadQueue, transfers, remoteDeleteQueue>>]_vars

\* an authentication failure is reported while files are queued and the
\* delete queue is paused
C9_Witness ==
    /\ last.op = "scannerComplete" /\ last.err = "530"
    /\ Called("postNotification")
    /\ remoteDeleteQueue.paused
    /\ Len(downloadQueue) > 1

\* C10: a transfer that ends, with or without error, leaves the queue, and
\* nothing else does; the queue is saturated again at once; the file is not
\* started again; it is added to the delete queue exactly when the transfer
\* succeeded and config.deleteRemoteFiles is set
C10_DownloadDone ==
    [][last'.op = "downloadDone" =>
           LET s == last'.scan
               i == last'.idx
               file == scanners[s].list[i]
               added == \E k \in DOMAIN last'.calls :
                            last'.calls[k] = Call("remoteDeleteQueue.add", s, i, NoErr)
               others == SelectSeq(downloadQueue,
                                   LAMBDA e : ~(e.scan = s /\ e.idx = i))
           IN  /\ \E t \in DOMAIN downloadQueue :
                      downloadQueue[t].scan = s /\ downloadQueue[t].idx = i
               /\ Len(downloadQueue') = Len(downloadQueue) - 1
               /\ \A t \in DOMAIN downloadQueue' :
                      /\ downloadQueue'[t].file = others[t].file
                      /\ ~equals(downloadQueue'[t].file, file)
               /\ Saturated(downloadQueue')
               /\ [scan |-> s, idx |-> i] \notin transfers'
               /\ \A k \in DOMAIN last'.calls :
                      last'.calls[k].fn = "FtpDownloader.start"
                          => ~equals(FileOf(last'.calls[k]), file)
               /\ added <=> (last'.err = NoErr /\ config.deleteRemoteFiles)
               /\ remoteDeleteQueue'.files =
                      IF added THEN remoteDeleteQueue.files \cup {file}
                      ELSE remoteDeleteQueue.files]_vars

\* a transfer has failed and the next one was started in the same handler
C10_Witness ==
    /\ last.op = "downloadDone" /\ last.err = "error"
    /\ Called("FtpDownloader.start")
    /\ ~Called("remoteDeleteQueue.add")

\* C11: a syncRequest that arrives while the orchestrator's scanner is
\* scanning calls nothing and changes nothing (no scanner is constructed, the
\* delete queue is not paused, the poll timer is not reset, the download queue
\* stays as it is), and after every handler at most one scanner is scanning
C11_SyncRequestWhileScanning ==
    [][/\ (/\ last'.op = "syncRequest"
            /\ ftpScanner # 0
            /\ scanners[ftpScanner].scanning)
               => /\ last'.calls = <<>>
                  /\ ~last'.threw
                  /\ UNCHANGED <<scanners, ftpScanner, pollingTimeoutId,
                                 downloadQueue, transfers, remoteDeleteQueue,
                                 localFiles>>
       /\ Cardinality({s \in DOMAIN scanners' : scanners'[s].scanning}) <= 1]_vars

\* a sync was requested while the second scanner scans: files are queued, the
\* delete queue is paused and there are still two scanners
C11_Witness ==
    /\ last.op = "syncRequest" /\ last.calls = <<>>
    /\ ftpScanner = 2 /\ Len(scanners) = 2
    /\ scanners[2].scanning
    /\ remoteDeleteQueue.paused
    /\ Len(downloadQueue) > 0

\* C12: no scan has two ls requests in flight; a handler sends at most one ls
\* request of a scan, and when it sends the one for an entry, the answer for
\* every symlink before that entry has been processed
C12_SequentialResolution ==
    [][\A s \in DOMAIN scanners' :
           /\ scanners'[s].lsPending <= 1
           /\ \A k, m \in DOMAIN last'.calls :
                  (/\ last'.calls[k].fn = "ftp.ls" /\ last'.calls[k].scan = s
                   /\ last'.calls[m].fn = "ftp.ls" /\ last'.calls[m].scan = s)
                      => k = m
           /\ \A k \in DOMAIN last'.calls :
                  (last'.calls[k].fn = "ftp.ls" /\ last'.calls[k].scan = s)
                      => /\ scanners[s].lsPending = 0 \/ last'.op = "ls"
                         /\ \A i \in 1..(last'.calls[k].idx - 1) :
                                scanners'[s].list[i].isSymLink
                                    => i \in scanners'[s].targetData]_vars

\* the answer for one symlink has been processed and the handler has sent
\* the ls request for a later symlink
C12_Witness ==
    /\ last.op = "ls" /\ last.err = NoErr /\ last.n = 1
    /\ \E k \in DOMAIN last.calls :
           /\ last.calls[k].fn = "ftp.ls"
           /\ last.calls[k].scan = last.scan
           /\ last.calls[k].idx > last.idx
    /\ scanners[last.scan].lsPending = 1

RECURSIVE Entries(_, _, _)
\* the symlinks and plain files of a tree as [level, file]: the files are in
\* the directory dir, which is at nesting level `level`
Entries(data, dir, level) ==
    UNION { IF data[k].type \in {"symlink", "file"}
            THEN {[level |-> level, file |-> FtpFile(SyncRoot, dir, data[k])]}
            ELSE IF data[k].type = "dir"
            THEN Entries(data[k].children, dir \o data[k].name \o <<"/">>,
                         level + 1)
            ELSE {}
            : k \in DOMAIN data }

RECURSIVE CountType(_, _)
\* the number of entries of a type in a tree, at every level
CountType(data, type) ==
    IF data = <<>> THEN 0
    ELSE (IF data[1].type = type THEN 1 ELSE 0)
         + (IF data[1].type = "dir" THEN CountType(data[1].children, type) ELSE 0)
         + CountType(Tail(data), type)

WithinBudget(data, depth) ==
    {e.file : e \in {x \in Entries(data, <<"/">>, 1) : x.level <= depth}}

NoTrailingSlash(p) ==
    IF Len(p) > 0 /\ p[Len(p)] = "/" THEN SubSeq(p, 1, Len(p) - 1) ELSE p

\* remote is a directory-bounded prefix of dir: dir begins with remote and a
\* path segment ends there
DirectoryBounded(remote, dir) ==
    LET q == NoTrailingSlash(remote)
    IN  /\ Len(q) < Len(dir)
        /\ SubSeq(dir, 1, Len(q)) = q
        /\ dir[Len(q) + 1] = "/"

\* dir behind the remote prefix and the slash that ends it
BehindPrefix(remote, dir) ==
    SubSeq(dir, Len(NoTrailingSlash(remote)) + 2, Len(dir))

C16_NoTimerAfterTeardown ==
    \A s \in DOMAIN scanners :
        ~scanners[s].scanning => scanners[s].timers = 0

\* C17: a scanner whose connection is destroyed sends no lsr or ls request
\* any more, and no scanner destroys its connection more than once
C17_NoUseAfterDestroy ==
    [][\A s \in DOMAIN scanners' :
           /\ scanners'[s].destroyed <= 1
           /\ (s \in DOMAIN scanners /\ scanners[s].ftp = "destroyed")
                  => \A k \in DOMAIN last'.calls :
                         ~(/\ last'.calls[k].fn \in {"ftp.ls", "ftp.lsr"}
                           /\ last'.calls[k].scan = s)]_vars

\* the ls request of a scanning scanner is answered with an error or with a
\* list that does not hold exactly one entry
MalformedResolution ==
    /\ last'.op = "ls"
    /\ last'.err # NoErr \/ last'.n # 1
    /\ scanners[last'.scan].scanning

\* the resolution step ends with an error: the iterator reports it, mapLimit
\* is done, and no entry is resolved, requested or handed over any more
ResolutionAborted ==
    LET s == last'.scan
    IN  /\ \E k \in DOMAIN last'.calls :
               /\ last'.calls[k].fn = "iterDone"
               /\ last'.calls[k].err = "Error getting data"
        /\ scanners'[s].mapDone
        /\ scanners'[s].lsPending = 0
        /\ scanners'[s].emitted = scanners[s].emitted
        /\ scanners'[s].targetData = scanners[s].targetData
        /\ \A k \in DOMAIN last'.calls :
               last'.calls[k].fn \notin {"ftp.ls", "scannerFileFound"}

\* C18: a malformed resolution ends the resolution step with an error, no
\* later entry is resolved or handed over, and the consumer's completion
\* callback is invoked with that error
C18_MalformedResolutionAborts ==
    [][MalformedResolution =>
           /\ ResolutionAborted
           /\ scanners'[last'.scan].scanCompleted = <<"Error getting data">>
           /\ scanners'[last'.scan].completed = <<"Error getting data">>]_vars

\* the position in the call log of the last handler at which the transfer of
\* a queue entry was started, 0 if it was not
StartedAt(e) ==
    IF \E k \in DOMAIN last'.calls :
           last'.calls[k] = Call("FtpDownloader.start", e.scan, e.idx, NoErr)
    THEN CHOOSE k \in DOMAIN last'.calls :
             last'.calls[k] = Call("FtpDownloader.start", e.scan, e.idx, NoErr)
    ELSE 0

\* C19: after a handler that ran downloadNextInQueue (a file was appended to
\* the queue, or a transfer has ended) the queue is saturated: the cap is
\* reached or no entry waits; and the transfers were started for the first
\* waiting entries in queue order: no entry before a started one is left
\* waiting, and they were started in queue order
C19_SaturatedInQueueOrder ==
    [][(\/ last'.op = "downloadDone"
        \/ \E k \in DOMAIN last'.calls : last'.calls[k].fn = "downloadQueue.push")
           => /\ Saturated(downloadQueue')
              /\ \A t, u \in DOMAIN downloadQueue' :
                     (t < u /\ StartedAt(downloadQueue'[u]) > 0)
                         => /\ downloadQueue'[t].downloading
                            /\ StartedAt(downloadQueue'[t])
                                   < StartedAt(downloadQueue'[u])]_vars

\* a transfer has ended while two entries waited with one slot free: the
\* first of them was started and the other one still waits
C19_Witness ==
    /\ last.op = "downloadDone"
    /\ Len(downloadQueue) = 2
    /\ downloadQueue[1].downloading /\ ~downloadQueue[2].downloading
    /\ last.calls = <<Call("FtpDownloader.start", downloadQueue[1].scan,
                           downloadQueue[1].idx, NoErr)>>

\* the queue entries whose downloading flag the last handler has set
NewlyDownloading ==
    {t \in DOMAIN downloadQueue' :
        /\ downloadQueue'[t].downloading
        /\ ~\E u \in DOMAIN downloadQueue :
               /\ downloadQueue[u].scan = downloadQueue'[t].scan
               /\ downloadQueue[u].idx = downloadQueue'[t].idx
               /\ downloadQueue[u].downloading}

\* an entry is downloading exactly while its transfer is in flight, and a
\* flag is set only in a handler that runs downloadNextInQueue, for an entry
\* whose transfer that handler starts
DownloadingWhileInFlight ==
    /\ \A t \in DOMAIN downloadQueue' :
           downloadQueue'[t].downloading
               <=> [scan |-> downloadQueue'[t].scan,
                    idx |-> downloadQueue'[t].idx] \in transfers'
    /\ \A t \in NewlyDownloading :
           /\ StartedAt(downloadQueue'[t]) > 0
           /\ \/ last'.op = "downloadDone"
              \/ \E k \in DOMAIN last'.calls :
                     last'.calls[k].fn = "downloadQueue.push"

\* C20: an entry of the download queue is downloading exactly while a
\* transfer for it is in flight, the flag being set when downloadNextInQueue
\* starts the transfer, and it is the orchestrator that writes the flag.
\* SyncController has no assignment to the flag, the one write is made inside
\* the call of FtpDownloader.start; so the last part says that no flag is set
\* by such a call
C20_DownloadingFlag ==
    [][/\ DownloadingWhileInFlight
       /\ \A t \in NewlyDownloading :
              \A k \in DOMAIN last'.calls :
                  last'.calls[k].fn = "FtpDownloader.start"
                      => k # StartedAt(downloadQueue'[t])]_vars

\* scanner s exists and is scanning
IsScanning(s) == s \in DOMAIN scanners /\ scanners[s].scanning

\* C21: every scanner that is scanning leaves the scanning state in the end,
\* whether or not the listing client answers; and a syncRequest that comes
\* when the orchestrator's scanner is not scanning constructs a scanner, sends
\* its full listing request and makes it the orchestrator's scanner
C21_ScanEventuallyEnds ==
    /\ \A s \in 1..MaxScans : IsScanning(s) ~> ~IsScanning(s)
    /\ [][(/\ last'.op = "syncRequest"
            /\ ~IsScanning(ftpScanner))
               => /\ Len(scanners') = Len(scanners) + 1
                  /\ ftpScanner' = Len(scanners')
                  /\ scanners'[ftpScanner'].scanning
                  /\ \E k \in DOMAIN last'.calls :
                         last'.calls[k] = Call("ftp.lsr", ftpScanner', 0, NoErr)]_vars

\* the listing of the first scan was never answered, the watchdog has
\* cancelled the scan, and the next syncRequest has started a second scan
C21_Witness ==
    /\ last.op = "syncRequest"
    /\ Len(scanners) = 2
    /\ scanners[1].cancelled /\ ~scanners[1].scanning
    /\ scanners[1].lsrPending = 1
    /\ scanners[1].destroyed = 1
    /\ ftpScanner = 2 /\ scanners[2].scanning

====
